---- MODULE Spec2Model ----
(***************************************************************************)
(* Model of sam_workflows/subcommands/accessfiles.py: the batch pipeline   *)
(* generate_sam_access_files and the helpers _generate_jpgs and            *)
(* _convert_pdf_cover_to_image.                                            *)
(*                                                                         *)
(* Strings that the code parses (the rights codes) are sequences of        *)
(* one-character strings; paths, urls and messages are TLA+ strings.       *)
(* Pixel content (thumbnail, rotation, watermark, RGB conversion) has no   *)
(* effect on control flow, counters or file placement and is not modelled. *)
(***************************************************************************)
EXTENDS Integers, Sequences, FiniteSets, TLC

\* ---------------------------------------------------------------------------
\* Bounds
\* ---------------------------------------------------------------------------
MaxFiles == 2

\* ---------------------------------------------------------------------------
\* Settings (sam_workflows/settings.py)
\* ---------------------------------------------------------------------------
SAM_ACCESS_LARGE_SIZE == 1920

SAM_ACCESS_MEDIUM_SIZE == 640

SAM_ACCESS_SMALL_SIZE == 150

SAM_ACCESS_LARGE_PATH == "access/large"

SAM_ACCESS_MEDIUM_PATH == "access/medium"

SAM_ACCESS_SMALL_PATH == "access/small"

SAM_ACCESS_PATH == "access"

SAM_MASTER_PATH == "master"

SAM_IMAGE_FORMATS == {".jpg", ".png"}

\* ---------------------------------------------------------------------------
\* Python values
\* ---------------------------------------------------------------------------
None == "<None>"

Truthy(x) == x \notin {None, ""}

\* dict.get(key, default)
Get(d, key, default) == IF key \in DOMAIN d THEN d[key] ELSE default

Digits == {"0", "1", "2", "3", "4", "5", "6", "7", "8", "9"}

DigitVal(c) ==
    CASE c = "0" -> 0 [] c = "1" -> 1 [] c = "2" -> 2 [] c = "3" -> 3
      [] c = "4" -> 4 [] c = "5" -> 5 [] c = "6" -> 6 [] c = "7" -> 7
      [] c = "8" -> 8 [] c = "9" -> 9

\* str.split(";")[0]: the characters before the first ";" (all of them when
\* there is none).
SplitFirst(s) ==
    LET semis == {i \in 1..Len(s) : s[i] = ";"}
    IN  IF semis = {} THEN s
        ELSE SubSeq(s, 1, (CHOOSE i \in semis : \A j \in semis : i <= j) - 1)

Unsigned(tok) ==
    IF Len(tok) > 0 /\ tok[1] \in {"-", "+"} THEN Tail(tok) ELSE tok

\* int(tok) raises ValueError unless tok is an optionally signed, nonempty
\* run of digits (surrounding blanks and "_" are outside the alphabet used).
IsInt(tok) ==
    LET body == Unsigned(tok)
    IN  Len(body) > 0 /\ \A i \in 1..Len(body) : body[i] \in Digits

RECURSIVE NatOf(_)
NatOf(body) ==
    IF body = <<>> THEN 0
    ELSE 10 * NatOf(SubSeq(body, 1, Len(body) - 1)) + DigitVal(body[Len(body)])

int(tok) ==
    IF Len(tok) > 0 /\ tok[1] = "-" THEN 0 - NatOf(Unsigned(tok))
    ELSE NatOf(Unsigned(tok))

\* ---------------------------------------------------------------------------
\* Paths
\* ---------------------------------------------------------------------------
\* A path is its directory, stem and suffix (pathlib: parent, stem, suffix).
Path(dir, stem, suffix) == [dir |-> dir, stem |-> stem, suffix |-> suffix]

PathStr(p) == p.dir \o "/" \o p.stem \o p.suffix

access_dirs ==
    (SAM_ACCESS_LARGE_SIZE :> SAM_ACCESS_LARGE_PATH)
    @@ (SAM_ACCESS_MEDIUM_SIZE :> SAM_ACCESS_MEDIUM_PATH)
    @@ (SAM_ACCESS_SMALL_SIZE :> SAM_ACCESS_SMALL_PATH)

\* out_file of _generate_jpgs for one size
OutFile(size, img_in) ==
    LET out_dir == IF size \in DOMAIN access_dirs /\ Truthy(access_dirs[size])
                   THEN access_dirs[size] ELSE SAM_ACCESS_PATH
    IN  PathStr(Path(out_dir, img_in.stem, ".jpg"))

\* ---------------------------------------------------------------------------
\* Outcomes of the libraries and services one record's processing calls.
\*   master        : what SAM_MASTER_PATH/filename is on disk
\*   pdf           : fitz rendering of page 0 and pix.writePNG
\*   open          : Image.open / img.load of the working image
\*   save_raises   : the sizes whose copy_img.save raises
\*   has_filename  : whether the resized copy carries a .filename attribute
\*                   (the save handler formats copy_img.filename)
\*   upload        : upload_files succeeds or raises
\* ---------------------------------------------------------------------------
DefaultEnv ==
    [master |-> "file", pdf |-> "ok", open |-> "ok", save_raises |-> {},
     has_filename |-> TRUE, upload |-> "ok"]

\* ---------------------------------------------------------------------------
\* _convert_pdf_cover_to_image: the PNG path, or the exception that leaves it.
\* fitz.open/loadPage/getPixmap are outside the try; writePNG is inside.
\* ---------------------------------------------------------------------------
_convert_pdf_cover_to_image(pdf_in, out_folder, env) ==
    IF env.pdf = "render_raises"
    THEN [raised |-> "RuntimeError", path |-> None]
    ELSE IF env.pdf = "write_raises"
    THEN [raised |-> "PDFConvertError", path |-> None]
    ELSE [raised |-> "", path |-> Path(out_folder, pdf_in.stem, ".png")]

\* ---------------------------------------------------------------------------
\* _generate_jpgs
\* resp is the returned dict: paths holds the size keys, error the "error"
\* key (None when the key is absent).
\* ---------------------------------------------------------------------------
FileExistsError(out_file) == "File already exists: " \o out_file

SaveError == "Error saving file"

\* SaveSize with the existence test dropped: every size is saved again.
SaveSize_AlwaysOverwrite(size, img_in, overwrite_, env, acc, content) ==
    LET out_file == OutFile(size, img_in)
    IN  IF size \in env.save_raises
        THEN IF env.has_filename
             THEN [acc EXCEPT !.resp.error = SaveError]
             ELSE [acc EXCEPT !.raised = "AttributeError"]
        ELSE [acc EXCEPT !.resp.paths = (size :> out_file) @@ @,
                         !.exists = (out_file :> content) @@ @]

\* One pass of the body of `for size in sizes`, from out_file on.
\* acc holds resp, the access directories (path -> the content saved there)
\* and the exception raised so far; content is what a save writes.
SaveSize(size, img_in, overwrite_, env, acc, content) ==
    LET out_file == OutFile(size, img_in)
    IN  IF (~overwrite_) /\ out_file \in DOMAIN acc.exists
        THEN [acc EXCEPT !.resp.error = FileExistsError(out_file)]
        ELSE IF size \in env.save_raises
        THEN IF env.has_filename
             THEN [acc EXCEPT !.resp.error = SaveError]
             ELSE [acc EXCEPT !.raised = "AttributeError"]
        ELSE [acc EXCEPT !.resp.paths = (size :> out_file) @@ @,
                         !.exists = (out_file :> content) @@ @]

RECURSIVE SizeLoop(_, _, _, _, _, _)

\* SizeLoop leaving the loop at the first error (break in the place of
\* continue).
SizeLoop_BreakOnError(sizes, img_in, overwrite_, env, acc, content) ==
    IF sizes = <<>> \/ acc.raised # "" \/ Truthy(acc.resp.error)
    THEN acc
    ELSE SizeLoop(Tail(sizes), img_in, overwrite_, env,
                  SaveSize(Head(sizes), img_in, overwrite_, env, acc, content),
                  content)

\* for size in sizes
SizeLoop(sizes, img_in, overwrite_, env, acc, content) ==
    IF sizes = <<>> \/ acc.raised # ""
    THEN acc
    ELSE SizeLoop(Tail(sizes), img_in, overwrite_, env,
                  SaveSize(Head(sizes), img_in, overwrite_, env, acc, content),
                  content)

_generate_jpgs(img_in, sizes, overwrite_, env, fs, content) ==
    LET acc == [resp |-> [paths |-> <<>>, error |-> None], exists |-> fs,
                raised |-> ""]
    IN  IF env.open = "unidentified"
        THEN [acc EXCEPT !.resp.error = "Failed to open as an image"]
        ELSE IF env.open = "open_raises"
        THEN [acc EXCEPT !.resp.error = "Error opening file"]
        ELSE IF env.open = "load_raises"
        THEN [acc EXCEPT !.raised = "OSError"]
        ELSE SizeLoop(sizes, img_in, overwrite_, env, acc, content)

\* ---------------------------------------------------------------------------
\* helpers.upload_files: one url per path, in the order of the paths, or an
\* exception for the whole list.
\* ---------------------------------------------------------------------------
Url(path) == "https://" \o path

upload_files(filepaths, env) ==
    IF env.upload = "raise"
    THEN [raised |-> "UploadError", urls |-> <<>>]
    ELSE [raised |-> "", urls |-> [i \in 1..Len(filepaths) |-> Url(filepaths[i])]]

\* ---------------------------------------------------------------------------
\* State
\* ---------------------------------------------------------------------------
VARIABLES
    pc,               \* "load", "loop", "done", or "raised" (an exception left
                      \* generate_sam_access_files)
    error,            \* the exception that left the function, "" when none
    upload,           \* parameter upload
    overwrite,        \* parameter overwrite
    files,            \* rows kept for a second invocation (SpecTwice)
    run,              \* which invocation this is
    idx,              \* number of rows the loop has finished
    file,             \* the row the loop handled last
    state,            \* where that row ended
    output,           \* local output
    converted,        \* local converted
    skipped,          \* local skipped
    failed,           \* local failed
    uploaded,         \* local uploaded
    exists,           \* the access directories: path -> <<run, row>> of the
                      \* save that wrote it, <<0, 0>> when it was there before
    convert_resp,     \* what _generate_jpgs returned for the last row
    urls,             \* what upload_files returned for the last row
    csv_out,          \* rows written by save_csv_to_sam
    env,              \* what the libraries and services did for the last row
    converted_rows,   \* positions of the rows converted in this invocation
    converted_before  \* the same, of the previous invocation

vars ==
    <<pc, error, upload, overwrite, files, run, idx, file, state, output,
      converted, skipped, failed, uploaded, exists, convert_resp, urls,
      csv_out, env, converted_rows, converted_before>>

EmptyResp == [paths |-> <<>>, error |-> None]

\* ---------------------------------------------------------------------------
\* One iteration of `for file in files`, as the values it leaves behind.
\* ---------------------------------------------------------------------------
Continue(label) ==
    [pc |-> "loop", state |-> label, error |-> "", output |-> output,
     converted |-> converted, skipped |-> skipped, failed |-> failed,
     uploaded |-> uploaded, exists |-> exists, convert_resp |-> EmptyResp,
     urls |-> <<>>]

\* Skip that counts the row as failed as well.
Skip_AlsoFailed(label) ==
    [Continue(label) EXCEPT !.skipped = skipped + 1, !.failed = failed + 1]

\* skipped += 1; continue
Skip(label) == [Continue(label) EXCEPT !.skipped = skipped + 1]

\* Fail without the increment.
Fail_NotTallied(label) == Continue(label)

\* failed += 1; continue
Fail(label) == [Continue(label) EXCEPT !.failed = failed + 1]

\* an exception nothing in the loop catches
Raise(exc) == [Continue("Aborted") EXCEPT !.pc = "raised", !.error = exc]

\* LegalRestricted with the threshold off by one.
LegalRestricted_OffByOne(legal_status) == int(SplitFirst(legal_status)) > 2

\* int(legal_status.split(";")[0]) > 1
LegalRestricted(legal_status) == int(SplitFirst(legal_status)) > 1

\* int(constractual_status.split(";")[0]) < 3
ContractualRestricted(constractual_status) ==
    int(SplitFirst(constractual_status)) < 3

OutputRecord(filepath, small, medium, large, record_type) ==
    [oasid |-> filepath.stem,
     thumbnail |-> small,
     record_image |-> medium,
     record_type |-> record_type,
     large_image |-> IF Truthy(large) THEN large ELSE "",
     web_document_url |-> "web_url"]

\* UploadAndAppend without the `continue` of the except branch: the row is
\* appended after a failed upload.
UploadAndAppend_NoContinue(filepath, record_type, conv, env_) ==
    LET small == Get(conv.resp.paths, SAM_ACCESS_SMALL_SIZE, None)
        medium == Get(conv.resp.paths, SAM_ACCESS_MEDIUM_SIZE, None)
        large == Get(conv.resp.paths, SAM_ACCESS_LARGE_SIZE, None)
        done == [Continue("Converted") EXCEPT !.converted = converted + 1,
                                              !.exists = conv.exists,
                                              !.convert_resp = conv.resp]
        local == Append(output,
                     OutputRecord(filepath, small, medium, large, record_type))
    IN  IF upload
        THEN LET filepaths == <<small, medium>>
                              \o (IF Truthy(large) THEN <<large>> ELSE <<>>)
                 up == upload_files(filepaths, env_)
             IN  IF up.raised # "" \/ Len(up.urls) < 3
                 THEN [done EXCEPT !.state = "UploadFailed",
                                   !.failed = failed + 1,
                                   !.urls = up.urls,
                                   !.output = local]
                 ELSE [done EXCEPT !.state = "Uploaded",
                                   !.uploaded = uploaded + 1,
                                   !.urls = up.urls,
                                   !.output = Append(output,
                                       OutputRecord(filepath, up.urls[1],
                                           up.urls[2], up.urls[3],
                                           record_type))]
        ELSE [done EXCEPT !.output = local]

\* from `converted += 1` to output.append
UploadAndAppend(filepath, record_type, conv, env_) ==
    LET small == Get(conv.resp.paths, SAM_ACCESS_SMALL_SIZE, None)
        medium == Get(conv.resp.paths, SAM_ACCESS_MEDIUM_SIZE, None)
        large == Get(conv.resp.paths, SAM_ACCESS_LARGE_SIZE, None)
        done == [Continue("Converted") EXCEPT !.converted = converted + 1,
                                              !.exists = conv.exists,
                                              !.convert_resp = conv.resp]
    IN  IF upload
        THEN LET filepaths == <<small, medium>>
                              \o (IF Truthy(large) THEN <<large>> ELSE <<>>)
                 up == upload_files(filepaths, env_)
             IN  IF up.raised # "" \/ Len(up.urls) < 3
                 THEN \* except Exception: upload_files raised, or urls[2]
                      \* raised IndexError
                      [done EXCEPT !.state = "UploadFailed",
                                   !.failed = failed + 1,
                                   !.urls = up.urls]
                 ELSE [done EXCEPT !.state = "Uploaded",
                                   !.uploaded = uploaded + 1,
                                   !.urls = up.urls,
                                   !.output = Append(output,
                                       OutputRecord(filepath, up.urls[1],
                                           up.urls[2], up.urls[3],
                                           record_type))]
        ELSE [done EXCEPT !.output = Append(output,
                              OutputRecord(filepath, small, medium, large,
                                           record_type))]

\* _generate_jpgs(filepath, sizes=filesizes, watermark=watermark) and the
\* check of its response; overwrite is not passed, so it is the default False.
GenerateAccessFiles(filepath, filesizes, record_type, env_) ==
    LET conv == _generate_jpgs(filepath, filesizes, FALSE, env_, exists,
                               <<run, idx + 1>>)
    IN  IF conv.raised # ""
        THEN [Raise(conv.raised) EXCEPT !.exists = conv.exists]
        ELSE IF Truthy(conv.resp.error)
        THEN [Fail("Failed") EXCEPT !.exists = conv.exists,
                                    !.convert_resp = conv.resp]
        ELSE UploadAndAppend(filepath, record_type, conv, env_)

\* Determine fileformat
DetermineFormat(filepath, env_) ==
    IF filepath.suffix \in SAM_IMAGE_FORMATS
    THEN GenerateAccessFiles(filepath,
             <<SAM_ACCESS_LARGE_SIZE, SAM_ACCESS_MEDIUM_SIZE,
               SAM_ACCESS_SMALL_SIZE>>, "image", env_)
    ELSE IF filepath.suffix = ".pdf"
    THEN LET cover == _convert_pdf_cover_to_image(filepath, "./images/temp",
                                                  env_)
         IN  IF cover.raised # ""
             THEN Raise(cover.raised)
             ELSE GenerateAccessFiles(cover.path,
                      <<SAM_ACCESS_MEDIUM_SIZE, SAM_ACCESS_SMALL_SIZE>>,
                      "web_document", env_)
    ELSE Skip("SkippedFormat")

\* Check filepath
CheckFilepath(filename, env_) ==
    LET filepath == Path(SAM_MASTER_PATH, filename.stem, filename.suffix)
    IN  IF env_.master = "missing" THEN Fail("NotFound")
        ELSE IF env_.master # "file" THEN Fail("NotAFile")
        ELSE DetermineFormat(filepath, env_)

\* Load SAM-data and check rights
LoopBody(file_, env_) ==
    LET data == file_.oasDataJsonEncoded
        legal_status == Get(data, "other_restrictions", <<"4">>)
        constractual_status == Get(data, "contractual_status", <<"1">>)
        filename == data["filename"]
    IN  IF ~IsInt(SplitFirst(legal_status)) THEN Raise("ValueError")
        ELSE IF LegalRestricted(legal_status) THEN Skip("SkippedLegal")
        ELSE IF ~IsInt(SplitFirst(constractual_status))
        THEN Raise("ValueError")
        ELSE IF ContractualRestricted(constractual_status)
        THEN Skip("SkippedContractual")
        ELSE CheckFilepath(filename, env_)

\* ---------------------------------------------------------------------------
\* Inputs
\* ---------------------------------------------------------------------------
Sizes == {SAM_ACCESS_LARGE_SIZE, SAM_ACCESS_MEDIUM_SIZE, SAM_ACCESS_SMALL_SIZE}

Stems == {"a", "b"}

Suffixes == {".jpg", ".pdf", ".txt"}

Filenames == {[stem |-> st, suffix |-> sf] : st \in Stems, sf \in Suffixes}

\* values of other_restrictions: "1", "10", "2;1", "1;4", "x", ""
LegalValues ==
    {<<"1">>, <<"1", "0">>, <<"2", ";", "1">>, <<"1", ";", "4">>, <<"x">>,
     <<>>}

\* values of contractual_status: "2", "3;1", "-1", "x"
ContractualValues == {<<"2">>, <<"3", ";", "1">>, <<"-", "1">>, <<"x">>}

\* A key is given as the set of its values: empty when the key is absent.
Row(legal, contractual, filename) ==
    [oasDataJsonEncoded |->
        [k \in {"filename"}
               \cup (IF legal = {} THEN {} ELSE {"other_restrictions"})
               \cup (IF contractual = {} THEN {} ELSE {"contractual_status"})
         |-> IF k = "filename" THEN filename
             ELSE IF k = "other_restrictions" THEN CHOOSE v \in legal : TRUE
             ELSE CHOOSE v \in contractual : TRUE]]

Optional(S) == {{}} \cup {{v} : v \in S}

\* every combination of the rights keys, on one image
RightsRows ==
    {Row(l, c, [stem |-> "a", suffix |-> ".jpg"]) :
        l \in Optional(LegalValues), c \in Optional(ContractualValues)}

\* everything works, or one of the calls made for the suffix does not
MasterEnvs ==
    {DefaultEnv}
    \cup {[DefaultEnv EXCEPT !.master = m] : m \in {"missing", "dir"}}

ImageEnvs ==
    {[DefaultEnv EXCEPT !.open = o] :
        o \in {"unidentified", "open_raises", "load_raises"}}
    \cup {[DefaultEnv EXCEPT !.save_raises = {sz}, !.has_filename = b] :
             sz \in {SAM_ACCESS_LARGE_SIZE, SAM_ACCESS_SMALL_SIZE},
             b \in BOOLEAN}
    \cup {[DefaultEnv EXCEPT !.upload = "raise"]}

PdfEnvs ==
    {[DefaultEnv EXCEPT !.pdf = p] : p \in {"render_raises", "write_raises"}}

Envs(suffix) ==
    MasterEnvs
    \cup (IF suffix \in SAM_IMAGE_FORMATS \cup {".pdf"} THEN ImageEnvs ELSE {})
    \cup (IF suffix = ".pdf" THEN PdfEnvs ELSE {})

Items ==
    {[file |-> f, env |-> DefaultEnv] : f \in RightsRows}
    \cup UNION {{[file |-> Row({<<"1">>}, {<<"3">>}, f), env |-> e] :
                    e \in Envs(f.suffix)} : f \in Filenames}

\* what the access directories hold before the first invocation
InitialAccessFiles ==
    {[out_file \in present |-> <<0, 0>>] :
        present \in {{},
                     {OutFile(SAM_ACCESS_SMALL_SIZE, [stem |-> "a"])},
                     {OutFile(SAM_ACCESS_LARGE_SIZE, [stem |-> "a"])}}}

NoRow == Row({}, {}, [stem |-> "", suffix |-> ""])

\* ---------------------------------------------------------------------------
\* Actions
\* ---------------------------------------------------------------------------
InitCommon ==
    /\ pc = "load"
    /\ error = ""
    /\ upload \in BOOLEAN
    /\ overwrite \in BOOLEAN
    /\ run = 1
    /\ idx = 0
    /\ file = NoRow
    /\ state = "Pending"
    /\ output = <<>>
    /\ converted = 0
    /\ skipped = 0
    /\ failed = 0
    /\ uploaded = 0
    /\ exists \in InitialAccessFiles
    /\ convert_resp = EmptyResp
    /\ urls = <<>>
    /\ csv_out = <<>>
    /\ env = DefaultEnv
    /\ converted_rows = {}
    /\ converted_before = {}

Init ==
    /\ InitCommon
    /\ files = <<>>

\* load_csv_from_sam raises and the exception is re-raised
LoadCsvFails ==
    /\ pc = "load"
    /\ pc' = "raised"
    /\ error' = "LoadError"
    /\ UNCHANGED <<upload, overwrite, files, run, idx, file, state, output,
                   converted, skipped, failed, uploaded, exists, convert_resp,
                   urls, csv_out, env, converted_rows, converted_before>>

\* load_csv_from_sam returns; output and the four counters are initialised
LoadCsv ==
    /\ pc = "load"
    /\ pc' = "loop"
    /\ idx' = 0
    /\ output' = <<>>
    /\ converted' = 0
    /\ skipped' = 0
    /\ failed' = 0
    /\ uploaded' = 0
    /\ converted_rows' = {}
    /\ UNCHANGED <<error, upload, overwrite, files, run, file, state, exists,
                   convert_resp, urls, csv_out, env, converted_before>>

\* one iteration of the loop on row file_
Iterate(file_, env_) ==
    \E r \in {LoopBody(file_, env_)} :
        /\ pc' = r.pc
        /\ error' = r.error
        /\ state' = r.state
        /\ output' = r.output
        /\ converted' = r.converted
        /\ skipped' = r.skipped
        /\ failed' = r.failed
        /\ uploaded' = r.uploaded
        /\ exists' = r.exists
        /\ convert_resp' = r.convert_resp
        /\ urls' = r.urls
        /\ file' = file_
        /\ env' = env_
        /\ idx' = IF r.pc = "loop" THEN idx + 1 ELSE idx
        /\ converted_rows' = IF r.converted > converted
                             THEN converted_rows \cup {idx + 1}
                             ELSE converted_rows
        /\ UNCHANGED <<upload, overwrite, files, run, csv_out,
                       converted_before>>

\* if output: save_csv_to_sam(output, csv_out); the summary is printed
Summary ==
    /\ pc' = "done"
    /\ csv_out' = IF output # <<>> THEN output ELSE csv_out
    /\ UNCHANGED <<error, upload, overwrite, files, run, idx, file, state,
                   output, converted, skipped, failed, uploaded, exists,
                   convert_resp, urls, env, converted_rows, converted_before>>

\* the loop takes the next row, whatever it is
ProcessFile ==
    /\ pc = "loop"
    /\ idx < MaxFiles
    /\ \E item \in Items : Iterate(item.file, item.env)

\* the rows are exhausted
Finish ==
    /\ pc = "loop"
    /\ Summary

Next == LoadCsvFails \/ LoadCsv \/ ProcessFile \/ Finish

Spec == Init /\ [][Next]_vars

\* ---------------------------------------------------------------------------
\* Two invocations on the same rows, master files and services, the access
\* directories left as the first invocation left them.
\* ---------------------------------------------------------------------------
RerunEnvs ==
    {DefaultEnv,
     [DefaultEnv EXCEPT !.save_raises = {SAM_ACCESS_MEDIUM_SIZE}],
     [DefaultEnv EXCEPT !.upload = "raise"]}

RerunItems ==
    {[file |-> Row({<<"2">>}, {<<"3">>}, [stem |-> "a", suffix |-> ".jpg"]),
      env |-> DefaultEnv]}
    \cup {[file |-> Row({<<"1">>}, {<<"3">>}, [stem |-> st, suffix |-> sf]),
           env |-> e] :
             st \in Stems, sf \in {".jpg", ".pdf"}, e \in RerunEnvs}

RECURSIVE SeqsUpTo(_, _)
SeqsUpTo(S, n) ==
    IF n = 0 THEN {<<>>}
    ELSE LET shorter == SeqsUpTo(S, n - 1)
         IN  shorter \cup {Append(q, x) : q \in shorter, x \in S}

InitTwice ==
    /\ InitCommon
    /\ files \in SeqsUpTo(RerunItems, MaxFiles)

ProcessLoaded ==
    /\ pc = "loop"
    /\ idx < Len(files)
    /\ Iterate(files[idx + 1].file, files[idx + 1].env)

FinishLoaded ==
    /\ pc = "loop"
    /\ idx = Len(files)
    /\ Summary

InvokeAgain ==
    /\ pc = "done"
    /\ run = 1
    /\ run' = 2
    /\ pc' = "load"
    /\ converted_before' = converted_rows
    /\ UNCHANGED <<error, upload, overwrite, files, idx, file, state, output,
                   converted, skipped, failed, uploaded, exists, convert_resp,
                   urls, csv_out, env, converted_rows>>

NextTwice ==
    LoadCsvFails \/ LoadCsv \/ ProcessLoaded \/ FinishLoaded \/ InvokeAgain

SpecTwice == InitTwice /\ [][NextTwice]_vars

\* ---------------------------------------------------------------------------
\* Vocabulary of the properties
\* ---------------------------------------------------------------------------
\* a step of the record loop on one row (file' is the row, the unprimed
\* variables are the tally before it)
RecordStep == pc = "loop" /\ pc' # "done"

LegalRaw(f) == Get(f.oasDataJsonEncoded, "other_restrictions", <<"4">>)

ContractualRaw(f) == Get(f.oasDataJsonEncoded, "contractual_status", <<"1">>)

Wellformed(raw) == IsInt(SplitFirst(raw))

Code(raw) == int(SplitFirst(raw))

Malformed(f, key) ==
    key \in DOMAIN f.oasDataJsonEncoded
    /\ ~Wellformed(f.oasDataJsonEncoded[key])

Missing(f, key) == key \notin DOMAIN f.oasDataJsonEncoded

SkippedRights == {"SkippedLegal", "SkippedContractual"}

SkippedStates == SkippedRights \cup {"SkippedFormat"}

FailedStates == {"NotFound", "NotAFile", "Failed", "UploadFailed"}

\* the row got as far as master-file resolution
ReachedResolution(st, err) ==
    \/ st \in {"NotFound", "NotAFile", "SkippedFormat", "Failed", "Converted",
               "UploadFailed", "Uploaded"}
    \/ st = "Aborted" /\ err # "ValueError"

\* _generate_jpgs returned for the row
GeneratorReturned(st) == st \in {"Failed", "Converted", "UploadFailed", "Uploaded"}

\* skipped goes up by one and nothing else of the tally or the output moves
SkippedByOne ==
    /\ skipped' = skipped + 1
    /\ converted' = converted
    /\ failed' = failed
    /\ uploaded' = uploaded
    /\ output' = output

LoopContinues == pc' = "loop" /\ idx' = idx + 1

\* the sizes requested for a file name, and the stem of the working image
RequestedSizes(filename) ==
    IF filename.suffix \in SAM_IMAGE_FORMATS THEN Sizes
    ELSE IF filename.suffix = ".pdf"
    THEN {SAM_ACCESS_MEDIUM_SIZE, SAM_ACCESS_SMALL_SIZE}
    ELSE {}

FileExistsErrors ==
    {FileExistsError(OutFile(sz, [stem |-> st])) : sz \in Sizes, st \in Stems}

\* ---------------------------------------------------------------------------
\* C1: once the rows are loaded, no error of one record aborts the batch; the
\* only exception that leaves generate_sam_access_files is the one raised by
\* load_csv_from_sam.
\* ---------------------------------------------------------------------------
C1_OnlyLoadAborts == pc = "raised" => error = "LoadError"

\* ---------------------------------------------------------------------------
\* C2: a row whose legal code is > 1 is skipped (skipped + 1, nothing else
\* moves, no output row), whatever its contractual status, which is not looked
\* at; a row with legal code <= 1 and contractual code < 3 is skipped the same
\* way; a row with legal code <= 1 and contractual code >= 3 goes on to
\* master-file resolution.
\* ---------------------------------------------------------------------------
C2_RightsGate ==
    [][RecordStep =>
        LET legal == LegalRaw(file')
            contractual == ContractualRaw(file')
        IN  /\ (Wellformed(legal) /\ Code(legal) > 1)
                  => /\ state' = "SkippedLegal"
                     /\ SkippedByOne
                     /\ LoopContinues
            /\ (/\ Wellformed(legal) /\ Code(legal) <= 1
                /\ Wellformed(contractual) /\ Code(contractual) < 3)
                  => /\ state' = "SkippedContractual"
                     /\ SkippedByOne
                     /\ LoopContinues
            /\ (/\ Wellformed(legal) /\ Code(legal) <= 1
                /\ Wellformed(contractual) /\ Code(contractual) >= 3)
                  => ReachedResolution(state', error')]_vars

\* a row with legal code 2 ("2;1") and a contractual status that is no
\* integer was skipped on the legal check
C2_Witness ==
    /\ state = "SkippedLegal"
    /\ LegalRaw(file) = <<"2", ";", "1">>
    /\ Malformed(file, "contractual_status")
    /\ skipped = 1
    /\ idx = 1
    /\ output = <<>>

\* ---------------------------------------------------------------------------
\* C3: a row whose other_restrictions or contractual_status is missing or
\* malformed is skipped (skipped + 1, no output row) and the loop goes on.
\* ---------------------------------------------------------------------------
C3_MalformedRightsSkip ==
    [][(/\ RecordStep
        /\ \E key \in {"other_restrictions", "contractual_status"} :
              Missing(file', key) \/ Malformed(file', key))
          => /\ state' \in SkippedRights
             /\ SkippedByOne
             /\ LoopContinues]_vars

\* ---------------------------------------------------------------------------
\* C4: a row adds at most one output row, and only when it was converted and,
\* with upload requested, uploaded; when the upload fails, failed goes up by
\* one, no output row is added and the loop goes on.
\* ---------------------------------------------------------------------------
C4_OutputOnlyOnSuccess ==
    [][RecordStep =>
        /\ Len(output') <= Len(output) + 1
        /\ SubSeq(output', 1, Len(output)) = output
        /\ Len(output') <= idx'
        /\ output' # output
              => /\ converted' = converted + 1
                 /\ ~Truthy(convert_resp'.error)
                 /\ state' = IF upload THEN "Uploaded" ELSE "Converted"
                 /\ upload => env'.upload = "ok"
        /\ (upload /\ GeneratorReturned(state')
              /\ ~Truthy(convert_resp'.error) /\ env'.upload = "raise")
              => /\ state' = "UploadFailed"
                 /\ failed' = failed + 1
                 /\ output' = output
                 /\ LoopContinues]_vars

\* the upload of the second row failed after the first row was uploaded and
\* emitted
C4_Witness ==
    /\ upload
    /\ state = "UploadFailed"
    /\ env.upload = "raise"
    /\ idx = 2
    /\ failed = 1
    /\ uploaded = 1
    /\ Len(output) = 1

\* ---------------------------------------------------------------------------
\* C5: with upload requested, when upload_files returns its urls for a
\* converted row, uploaded goes up by one and the output row carries the urls
\* of small, medium and large, large_image being "" when no large size was
\* made (a pdf).
\* ---------------------------------------------------------------------------
C5_UploadedUrls ==
    [][(/\ RecordStep
        /\ upload
        /\ GeneratorReturned(state')
        /\ ~Truthy(convert_resp'.error)
        /\ env'.upload = "ok")
          => LET paths == convert_resp'.paths
                 url(sz) == IF sz \in DOMAIN paths THEN Url(paths[sz]) ELSE ""
             IN  /\ state' = "Uploaded"
                 /\ uploaded' = uploaded + 1
                 /\ Len(output') = Len(output) + 1
                 /\ output'[Len(output')].thumbnail
                        = url(SAM_ACCESS_SMALL_SIZE)
                 /\ output'[Len(output')].record_image
                        = url(SAM_ACCESS_MEDIUM_SIZE)
                 /\ output'[Len(output')].large_image
                        = url(SAM_ACCESS_LARGE_SIZE)]_vars

\* ---------------------------------------------------------------------------
\* C6: in a second invocation on the same rows, with the access files of the
\* first left in place and overwrite false, no row is converted, and every
\* row converted by the first invocation fails on a file that already exists.
\* ---------------------------------------------------------------------------
C6_SecondRunConvertsNothing ==
    (run = 2 /\ ~overwrite /\ pc \in {"loop", "done"})
        => /\ converted = 0
           /\ (idx >= 1 /\ idx \in converted_before)
                 => /\ state = "Failed"
                    /\ convert_resp.error \in FileExistsErrors

\* the second invocation has failed a row that the first one converted
C6_Witness ==
    /\ run = 2
    /\ ~overwrite
    /\ pc = "loop"
    /\ idx = 2
    /\ converted_before = {1, 2}
    /\ state = "Failed"
    /\ failed = 2

\* ---------------------------------------------------------------------------
\* C7: with overwrite true, a size whose destination already exists is
\* written again and the row is not failed because the file exists.
\* ---------------------------------------------------------------------------
C7_OverwriteReplacesExisting ==
    overwrite => ~(state = "Failed" /\ convert_resp.error \in FileExistsErrors)

\* ---------------------------------------------------------------------------
\* C8: within a run no counter is reset or decreased, and a row that ends in
\* a terminal non-success state adds exactly 1 to exactly one of skipped and
\* failed (skipped for the skipped states, failed for the others), after
\* which the loop goes on.
\* ---------------------------------------------------------------------------
C8_TallyOncePerOutcome ==
    [][/\ pc = "loop"
          => /\ converted' >= converted
             /\ skipped' >= skipped
             /\ failed' >= failed
             /\ uploaded' >= uploaded
       /\ (RecordStep /\ state' \in SkippedStates)
          => /\ skipped' = skipped + 1
             /\ failed' = failed
             /\ LoopContinues
       /\ (RecordStep /\ state' \in FailedStates)
          => /\ failed' = failed + 1
             /\ skipped' = skipped
             /\ LoopContinues]_vars

\* a row was skipped for its format after another failed: one in each counter
C8_Witness ==
    /\ state = "SkippedFormat"
    /\ idx = 2
    /\ skipped = 1
    /\ failed = 1
    /\ pc = "loop"

\* ---------------------------------------------------------------------------
\* C9: in _generate_jpgs (overwrite false) a size whose destination exists
\* is not written and gets no path, and an error is attached; every other
\* requested size whose save does not raise is written and gets its path;
\* the caller fails the row whenever the error key is present.
\* ---------------------------------------------------------------------------
C9_SoftPerSizeFailure ==
    [][(RecordStep /\ GeneratorReturned(state') /\ env'.open = "ok")
          => LET filename == file'.oasDataJsonEncoded["filename"]
                 resp == convert_resp'
             IN  /\ \A sz \in RequestedSizes(filename) :
                       LET out_file == OutFile(sz, filename)
                       IN  /\ out_file \in DOMAIN exists
                              => /\ sz \notin DOMAIN resp.paths
                                 /\ exists'[out_file] = exists[out_file]
                                 /\ Truthy(resp.error)
                           /\ (out_file \notin DOMAIN exists
                               /\ sz \notin env'.save_raises)
                              => /\ sz \in DOMAIN resp.paths
                                 /\ resp.paths[sz] = out_file
                                 /\ out_file \in DOMAIN exists'
                                 /\ exists'[out_file] = <<run, idx + 1>>
                 /\ Truthy(resp.error)
                       => /\ state' = "Failed"
                          /\ failed' = failed + 1
                          /\ converted' = converted
                          /\ output' = output]_vars

\* the small file of "a" was there before: the row failed, yet its large and
\* medium files were written
C9_Witness ==
    /\ state = "Failed"
    /\ idx = 1
    /\ convert_resp.error
          = FileExistsError(OutFile(SAM_ACCESS_SMALL_SIZE, [stem |-> "a"]))
    /\ DOMAIN convert_resp.paths
          = {SAM_ACCESS_LARGE_SIZE, SAM_ACCESS_MEDIUM_SIZE}
    /\ exists[OutFile(SAM_ACCESS_SMALL_SIZE, [stem |-> "a"])] = <<0, 0>>
    /\ exists[OutFile(SAM_ACCESS_LARGE_SIZE, [stem |-> "a"])] = <<1, 1>>

\* ---------------------------------------------------------------------------
\* C10: skipped + failed + the number of output rows is the number of rows
\* processed; the number of output rows is uploaded with upload and converted
\* without; uploaded <= converted.
\* ---------------------------------------------------------------------------
C10_TallyAccounts ==
    /\ skipped + failed + Len(output) = idx
    /\ Len(output) = IF upload THEN uploaded ELSE converted
    /\ uploaded <= converted

\* two rows converted with upload requested: one uploaded, one not
C10_Witness ==
    /\ upload
    /\ idx = 2
    /\ converted = 2
    /\ uploaded = 1
    /\ failed = 1
    /\ Len(output) = 1

====
